---- MODULE Spec2Model ----
(***************************************************************************)
(* Walking Buddies (src/main.py): the challenge / points engine of the     *)
(* Streamlit prototype, modelled as a state machine.                       *)
(*                                                                         *)
(* One action is one run of the script (Streamlit reruns the whole file    *)
(* on every interaction) for the user named in the sidebar, with at most   *)
(* one button pressed.  The run executes, in file order: Join Team,        *)
(* Submit Walk / Send Invite, the Challenges tab (period refresh of every  *)
(* challenge, Join / Leave, Check & Complete), Create Challenge,           *)
(* settle_battles, Create Battle, Redeem, Add Route.                       *)
(*                                                                         *)
(* Dates are day numbers (days since 1970-01-01); an ISO date string and   *)
(* its day number order and compare alike.  Miles are Python floats, kept  *)
(* bit for bit.  The clock does not move during one run.                   *)
(***************************************************************************)
EXTENDS Integers, Sequences, FiniteSets, TLC

(***************************************************************************)
(* Calendar: what datetime.date does for the code (proleptic Gregorian     *)
(* calendar, day numbers counted from 1970-01-01).                         *)
(***************************************************************************)
DaysOfEra(era, yoe, doy) ==
    era * 146097 + yoe * 365 + yoe \div 4 - yoe \div 100 + doy - 719468

DaysOfShifted(yy, mp, d) ==
    DaysOfEra(yy \div 400, yy % 400, (153 * mp + 2) \div 5 + d - 1)

\* date(y, m, d) as a day number.
DaysFromCivil(y, m, d) ==
    DaysOfShifted(IF m <= 2 THEN y - 1 ELSE y, IF m > 2 THEN m - 3 ELSE m + 9, d)

CivilOfMonth(era, yoe, doy, mp) ==
    [year  |-> yoe + era * 400 + (IF mp < 10 THEN 0 ELSE 1),
     month |-> IF mp < 10 THEN mp + 3 ELSE mp - 9,
     day   |-> doy - (153 * mp + 2) \div 5 + 1]

CivilOfDoy(era, yoe, doy) == CivilOfMonth(era, yoe, doy, (5 * doy + 2) \div 153)

CivilOfYoe(era, doe, yoe) ==
    CivilOfDoy(era, yoe, doe - (365 * yoe + yoe \div 4 - yoe \div 100))

CivilOfDoe(era, doe) ==
    CivilOfYoe(era, doe,
               (doe - doe \div 1460 + doe \div 36524 - doe \div 146096) \div 365)

CivilOfShifted(z) == CivilOfDoe(z \div 146097, z % 146097)

\* The [year, month, day] of a day number.
CivilFromDays(n) == CivilOfShifted(n + 719468)

\* date.weekday(): Monday is 0, Sunday is 6 (1970-01-01 was a Thursday).
Weekday(n) == (n + 3) % 7

IsoOfYear(n, thursday, y) ==
    [year |-> y, week |-> (thursday - DaysFromCivil(y, 1, 1)) \div 7 + 1,
     weekday |-> Weekday(n) + 1]

IsoOfThursday(n, thursday) == IsoOfYear(n, thursday, CivilFromDays(thursday).year)

\* date.isocalendar(): the ISO year and week are those of the week's Thursday.
IsoCalendar(n) == IsoOfThursday(n, n - Weekday(n) + 3)

MondayOfWeek1(jan4) == jan4 - Weekday(jan4)

\* date.fromisocalendar(y, w, wd): week 1 is the week holding January 4th.
FromIsoCalendar(y, w, wd) ==
    MondayOfWeek1(DaysFromCivil(y, 1, 4)) + 7 * (w - 1) + (wd - 1)

\* The session starts on Saturday 2024-11-30: Sunday is the 1st of December
\* and Monday opens ISO week 49, so two clock steps cross a day, a month, a
\* weekend and a week boundary.
StartDay == DaysFromCivil(2024, 11, 30)

(***************************************************************************)
(* Program constants.                                                      *)
(***************************************************************************)
None == <<>>

POINT_RULES ==
    [base_per_minute |-> 1, streak_7 |-> 10, streak_30 |-> 50,
     group_walk_bonus |-> 20, invite_bonus |-> 50, photo_share |-> 5]

\* The built-in catalog.  target holds the entry's target, target_miles or
\* target_count; custom and metric are the fields a custom challenge carries.
challenge_catalog ==
    << [id |-> "daily_5000",        target |-> 5000, period |-> "daily",
        reward_points |-> 50,  custom |-> FALSE, metric |-> "steps"],
       [id |-> "weekend_walkathon", target |-> 10,   period |-> "weekend",
        reward_points |-> 150, custom |-> FALSE, metric |-> "miles"],
       [id |-> "photo_share",       target |-> 1,    period |-> "weekly",
        reward_points |-> 20,  custom |-> FALSE, metric |-> "photos"],
       [id |-> "invite_3",          target |-> 3,    period |-> "monthly",
        reward_points |-> 100, custom |-> FALSE, metric |-> "invites"],
       [id |-> "team_100_miles",    target |-> 100,  period |-> "weekly",
        reward_points |-> 300, custom |-> FALSE, metric |-> "miles"],
       [id |-> "relay_pass_baton",  target |-> 2,    period |-> "weekly",
        reward_points |-> 200, custom |-> FALSE, metric |-> "miles"],
       [id |-> "city_explorer",     target |-> 5,    period |-> "monthly",
        reward_points |-> 120, custom |-> FALSE, metric |-> "routes"] >>

\* The costs of the reward catalog, by id.
reward_catalog ==
    [badge_10_walks |-> 0, badge_100_miles |-> 0, coupon_sneakers |-> 300,
     coupon_cafe |-> 150, giftcard |-> 800, premium_challenge |-> 400]

\* The ids create_custom_challenge gives (custom_<milliseconds>), in the
\* order of creation.
CustomIds == << "custom_1", "custom_2", "custom_3" >>

(***************************************************************************)
(* State.                                                                  *)
(***************************************************************************)
VARIABLES
    today,              \* date.today(), a day number
    users,              \* st.session_state.users: user_id -> record
    teams,              \* st.session_state.teams: team name -> member set
    custom_challenges,  \* st.session_state.custom_challenges
    user_challenges,    \* st.session_state.user_challenges
    team_battles,       \* st.session_state.team_battles
    credited,           \* observation: payments of each challenge per period
    typed,              \* observation: the miles and photos submitted, by day
    last                \* observation: what the last run did and returned

vars == << today, users, teams, custom_challenges, user_challenges,
           team_battles, credited, typed, last >>

\* dict.get(k, default) and dict[k] = v.
Get(f, k, default) == IF k \in DOMAIN f THEN f[k] ELSE default
Put(f, k, v) == [x \in DOMAIN f \cup {k} |-> IF x = k THEN v ELSE f[x]]

\* The sum of f over the set S.
RECURSIVE SumOver(_, _)
SumFrom(f, S, x) == f[x] + SumOver(f, S \ {x})
SumOver(f, S) == IF S = {} THEN 0 ELSE SumFrom(f, S, CHOOSE y \in S : TRUE)

(***************************************************************************)
(* Python floats (IEEE-754 binary64) for the values miles take.  A float   *)
(* is three 24-bit limbs << a, b, c >> of value                            *)
(* (a * 2^48 + b * 2^24 + c) / 2^60: 0 and every double in [2^-8, 2^12) is *)
(* such a triple, and triples compare limb by limb as their values do.     *)
(***************************************************************************)
Limb == 2^24

FZero == << 0, 0, 0 >>

\* float(n) of a whole number n below 4096.
FWhole(n) == << n * 4096, 0, 0 >>

\* The whole miles in a float.
MilesOf(x) == x[1] \div 4096

\* The doubles of the literals 0.1, 0.2, ... 0.9.
Tenths ==
    << << 409, 10066329, 10066336 >>, << 819, 3355443, 3355456 >>,
       << 1228, 13421772, 13421760 >>, << 1638, 6710886, 6710912 >>,
       << 2048, 0, 0 >>, << 2457, 10066329, 10066304 >>,
       << 2867, 3355443, 3355392 >>, << 3276, 13421772, 13421824 >>,
       << 3686, 6710886, 6710912 >> >>

\* float(miles) of the number input's value, given in hundredths of a mile:
\* a whole number of miles, or a number of tenths below one mile.
FloatOf(h) == IF h % 100 = 0 THEN FWhole(h \div 100) ELSE Tenths[h \div 10]

\* The number of bits of a.
BitLen(a) == CHOOSE k \in 0..30 : a < 2^k /\ (k = 0 \/ a >= 2^(k - 1))

\* Three limb sums with their carries moved up.
Norm3(a, b, c) ==
    << a + ((b + (c \div Limb)) \div Limb), (b + (c \div Limb)) % Limb, c % Limb >>

\* Round to nearest, ties to even: r is what lies below the last kept bit,
\* whose weight is q.
RoundUp(r, q, base) == 2 * r > q \/ (2 * r = q /\ (base \div q) % 2 = 1)

Rounded(s, q, r) ==
    Norm3(s[1], s[2], (s[3] - r) + (IF RoundUp(r, q, s[3] - r) THEN q ELSE 0))

RoundAt(s, q) == Rounded(s, q, s[3] % q)

\* A double keeps 53 bits; the limbs hold 48 below the top one.
DropBits(a) == IF BitLen(a) > 5 THEN BitLen(a) - 5 ELSE 0

RoundSum(s) == RoundAt(s, 2^DropBits(s[1]))

\* x + y on floats: the exact sum, rounded once.
FAdd(x, y) ==
    IF x = FZero THEN y
    ELSE IF y = FZero THEN x
    ELSE RoundSum(Norm3(x[1] + y[1], x[2] + y[2], x[3] + y[3]))

\* x < y on floats.
FLess(x, y) ==
    \/ x[1] < y[1]
    \/ x[1] = y[1] /\ x[2] < y[2]
    \/ x[1] = y[1] /\ x[2] = y[2] /\ x[3] < y[3]

\* u["team"] is None or a name; every read of it is a truth test, so None
\* and the empty name are one value here.
NoTeam == ""

NewUser ==
    [points |-> 0, team |-> NoTeam, walk_dates |-> << >>,
     steps_log |-> << >>, minutes_log |-> << >>, distance_miles_log |-> << >>,
     photos_this_week |-> 0, invites_this_month |-> 0,
     routes_completed_month |-> {}]

\* ensure_user: the user's record, created with the defaults when missing.
ensure_user(us, user_id) ==
    IF user_id \in DOMAIN us THEN us ELSE Put(us, user_id, NewUser)

(***************************************************************************)
(* Challenges logic.                                                       *)
(***************************************************************************)
\* The next Saturday, a Sunday looking ahead too.
SaturdayAhead(n, weekday) == n + ((5 - weekday) % 7)

\* today + (5 - weekday) if weekday <= 5 else today - (weekday - 5)
SaturdayFor(n, weekday) ==
    IF weekday <= 5 THEN n + (5 - weekday) ELSE n - (weekday - 5)

SaturdayOf(n) == SaturdayFor(n, Weekday(n))

WeeklyKey(ic) == << "weekly", ic.year, ic.week >>
MonthlyKey(c) == << "monthly", c.year, c.month >>

\* _period_key when date.today() is n.  A formatted string is the tuple of
\* the values it is formatted from.
PeriodKeyAt(ch, n) ==
    IF ch.period = "daily" THEN << "daily", n >>
    ELSE IF ch.period = "weekly" THEN WeeklyKey(IsoCalendar(n))
    ELSE IF ch.period = "weekend" THEN << "weekend", SaturdayOf(n) >>
    ELSE IF ch.period = "monthly" THEN MonthlyKey(CivilFromDays(n))
    ELSE << "alltime" >>

_period_key(ch) == PeriodKeyAt(ch, today)

\* The strings _period_key returns, character by character: {n}, {n:02d},
\* date.isoformat() and the f-strings built from them.
DigitChar == << "0", "1", "2", "3", "4", "5", "6", "7", "8", "9" >>

RECURSIVE Dec(_)
Dec(n) == IF n < 10 THEN << DigitChar[n + 1] >>
          ELSE Append(Dec(n \div 10), DigitChar[(n % 10) + 1])

Pad2(n) == IF n < 10 THEN << "0" >> \o Dec(n) ELSE Dec(n)

Pad4(n) ==
    IF n < 10 THEN << "0", "0", "0" >> \o Dec(n)
    ELSE IF n < 100 THEN << "0", "0" >> \o Dec(n)
    ELSE IF n < 1000 THEN << "0" >> \o Dec(n)
    ELSE Dec(n)

IsoFormatOf(c) == Pad4(c.year) \o << "-" >> \o Pad2(c.month) \o << "-" >> \o Pad2(c.day)

IsoFormat(n) == IsoFormatOf(CivilFromDays(n))

FormatKey(key) ==
    IF key[1] = "daily" THEN IsoFormat(key[2])
    ELSE IF key[1] = "weekly" THEN Dec(key[2]) \o << "-", "W" >> \o Pad2(key[3])
    ELSE IF key[1] = "weekend" THEN << "weekend-" >> \o IsoFormat(key[2])
    ELSE IF key[1] = "monthly" THEN Dec(key[2]) \o << "-" >> \o Pad2(key[3])
    ELSE << "alltime" >>

\* The string _period_key returns when date.today() is n.
PeriodKeyString(ch, n) == FormatKey(PeriodKeyAt(ch, n))

\* get_challenge_by_id over catalog then custom challenges: << c >> for the
\* first entry c with the id, << >> (None) when there is none.
FirstOf(hits) == IF hits = << >> THEN None ELSE << Head(hits) >>
FirstWithId(list, ch_id) == FirstOf(SelectSeq(list, LAMBDA c : c.id = ch_id))

get_challenge_by_id(custom, ch_id) ==
    FirstWithId(challenge_catalog \o custom, ch_id)

NewUserChallenge == [joined |-> FALSE, completed |-> FALSE, last_reset |-> None]

\* A reset that moves last_reset and keeps the completed flag.
KeepsCompleted(rec, key) == [rec EXCEPT !.last_reset = key]

\* A reset that takes the joined flag away with the completed flag.
ResetsJoined(rec, key) ==
    IF rec.last_reset # key
    THEN [joined |-> FALSE, completed |-> FALSE, last_reset |-> key]
    ELSE rec

\* The reset of a record whose last_reset is not the current key (progress
\* is always the empty dict and is left out).
ResetFor(rec, key) ==
    IF rec.last_reset # key
    THEN [joined |-> rec.joined, completed |-> FALSE, last_reset |-> key]
    ELSE rec

\* What _ensure_user_challenge leaves in the record of challenge found.
Refreshed(rec, found) ==
    IF found # None THEN ResetFor(rec, _period_key(found[1])) ELSE rec

\* user_challenges[user_id][ch_id], the defaults when missing.
RecordOf(ucs, user_id, ch_id) ==
    Get(Get(ucs, user_id, << >>), ch_id, NewUserChallenge)

SetRecord(ucs, user_id, ch_id, rec) ==
    Put(ucs, user_id, Put(Get(ucs, user_id, << >>), ch_id, rec))

\* The record _ensure_user_challenge returns.
EnsuredRecord(ucs, custom, user_id, ch_id) ==
    Refreshed(RecordOf(ucs, user_id, ch_id), get_challenge_by_id(custom, ch_id))

\* _ensure_user_challenge: user_challenges after the call.
_ensure_user_challenge(ucs, custom, user_id, ch_id) ==
    SetRecord(ucs, user_id, ch_id, EnsuredRecord(ucs, custom, user_id, ch_id))

\* date.fromisocalendar(y, w, 1) of today's isocalendar().
MondayFor(ic) == FromIsoCalendar(ic.year, ic.week, 1)
WeekFrom(monday) == {monday + i : i \in 0..6}
WeekDates == WeekFrom(MondayFor(IsoCalendar(today)))

MonthFrom(start, next) == {start + i : i \in 0..(next - start - 1)}
MonthOf(c) ==
    MonthFrom(DaysFromCivil(c.year, c.month, 1),
              DaysFromCivil(c.year + (c.month \div 12), (c.month % 12) + 1, 1))

WeekendFrom(saturday) == {saturday, saturday + 1}

\* _dates_for_period.
_dates_for_period(period) ==
    IF period = "daily" THEN {today}
    ELSE IF period = "weekly" THEN WeekDates
    ELSE IF period = "monthly" THEN MonthOf(CivilFromDays(today))
    ELSE IF period = "weekend" THEN WeekendFrom(SaturdayOf(today))
    ELSE {today}

\* sum(log.get(d, 0) for d in dates)
RECURSIVE SumLog(_, _)
SumLogFrom(log, dates, d) == Get(log, d, 0) + SumLog(log, dates \ {d})
SumLog(log, dates) ==
    IF dates = {} THEN 0
    ELSE SumLogFrom(log, dates, CHOOSE d \in dates : TRUE)

_sum_steps_for_period(u, period) == SumLog(u.steps_log, _dates_for_period(period))
_sum_minutes_for_period(u, period) == SumLog(u.minutes_log, _dates_for_period(period))

MinOf(ds) == CHOOSE d \in ds : \A e \in ds : d <= e

\* sum(float(log.get(d, 0.0)) for d in dates): the dates in the order of the
\* list, which is ascending, the floats added from left to right.  (The
\* compensated sum of Python 3.12 and later gives the same float whenever at
\* most two of the terms are not zero.)
RECURSIVE FSumLog(_, _, _)
FSumNext(log, dates, total, d) ==
    FSumLog(log, dates \ {d}, FAdd(total, Get(log, d, FZero)))
FSumLog(log, dates, total) ==
    IF dates = {} THEN total ELSE FSumNext(log, dates, total, MinOf(dates))

_sum_miles_for_period(u, period) ==
    FSumLog(u.distance_miles_log, _dates_for_period(period), FZero)

WalksIn(walk_dates, dates) ==
    Cardinality({i \in 1..Len(walk_dates) : walk_dates[i] \in dates})

_count_walks_for_period(u, period) == WalksIn(u.walk_dates, _dates_for_period(period))

(***************************************************************************)
(* Points, streak, challenge evaluation.  A session S is the record of     *)
(* the session state the helpers read and write: users, teams, uc          *)
(* (user_challenges), custom (custom_challenges), battles (team_battles),  *)
(* with the observations credited and evals, and ret, the value the        *)
(* handler of the pressed button returned.                                 *)
(***************************************************************************)
MaxOf(ds) == CHOOSE d \in ds : \A e \in ds : e <= d

\* The loop of calc_streak over the distinct dates, latest first.
RECURSIVE StreakLoop(_, _)
StreakStep(ds, streak, d) ==
    IF d = today - streak THEN StreakLoop(ds \ {d}, streak + 1)
    ELSE IF d < today - streak THEN streak
    ELSE StreakLoop(ds \ {d}, streak)
StreakLoop(ds, streak) ==
    IF ds = {} THEN streak ELSE StreakStep(ds, streak, MaxOf(ds))

\* The number of distinct days with an event, gaps ignored.
DistinctDays(dates) == Cardinality({dates[i] : i \in 1..Len(dates)})

calc_streak(dates) ==
    IF dates = << >> THEN 0
    ELSE StreakLoop({dates[i] : i \in 1..Len(dates)}, 0)

\* A balance update that takes the points instead of adding them.
TakeFrom(us, user_id, pts) == [us EXCEPT ![user_id].points = @ - pts]

\* u["points"] = int(u.get("points", 0)) + pts, on an existing record.
AddTo(us, user_id, pts) == [us EXCEPT ![user_id].points = @ + pts]

\* An add_points that credits every user.
AddToAll(us, user_id, pts) ==
    [v \in DOMAIN ensure_user(us, user_id) |->
        [ensure_user(us, user_id)[v] EXCEPT !.points = @ + pts]]

\* add_points.
add_points(us, user_id, pts) == AddTo(ensure_user(us, user_id), user_id, pts)

\* The miles of one member over the Monday-to-Sunday dates of this ISO week.
WeekMiles(us, member) == FSumLog(us[member].distance_miles_log, WeekDates, FZero)

\* for member in members: total += float(um["distance_miles_log"].get(di, 0.0))
\* (members is a set: the order of the loop is the interpreter's).
RECURSIVE MembersLoop(_, _, _, _)
MembersNext(us, members, di, total, m) ==
    MembersLoop(us, members \ {m}, di,
                FAdd(total, Get(us[m].distance_miles_log, di, FZero)))
MembersLoop(us, members, di, total) ==
    IF members = {} THEN total
    ELSE MembersNext(us, members, di, total, CHOOSE m \in members : TRUE)

\* The loop over the dates cur .. end around the loop over the members.
RECURSIVE DaysLoop(_, _, _, _, _)
DaysLoop(us, members, cur, end, total) ==
    IF cur <= end
    THEN DaysLoop(us, members, cur + 1, end, MembersLoop(us, members, cur, total))
    ELSE total

WeekTotal(us, members, monday) == DaysLoop(us, members, monday, monday + 6, FZero)

\* team_100_miles: the members' miles of the week, summed.
TeamTotal(us, members) == WeekTotal(us, members, MondayFor(IsoCalendar(today)))

\* A relay that one member at the target completes.
OkForSome(us, members, target) ==
    \E m \in members : ~ FLess(WeekMiles(us, m), FWhole(target))

\* relay_pass_baton: ok_for_all after the loop over the members.
OkForAll(us, members, target) ==
    \A m \in members : ~ FLess(WeekMiles(us, m), FWhole(target))

\* if tname and tname in st.session_state.teams
HasTeam(tms, u) == u.team # "" /\ u.team \in DOMAIN tms

\* The whole-number metrics of a custom challenge over its period.
CustomValue(u, ch) ==
    IF ch.metric = "steps" THEN _sum_steps_for_period(u, ch.period)
    ELSE IF ch.metric = "minutes" THEN _sum_minutes_for_period(u, ch.period)
    ELSE IF ch.metric = "walks" THEN _count_walks_for_period(u, ch.period)
    ELSE 0

\* val >= target of the custom branch; the miles are a float.
CustomMet(u, ch) ==
    IF ch.metric = "miles"
    THEN ~ FLess(_sum_miles_for_period(u, ch.period), FWhole(ch.target))
    ELSE CustomValue(u, ch) >= ch.target

\* The total of the weekend branch: Saturday's float plus Sunday's.
WeekendTotal(log, saturday) ==
    FAdd(Get(log, saturday, FZero), Get(log, saturday + 1, FZero))

\* The target test of the branch complete_challenge_if_eligible takes for
\* ch, for the user record u.
TargetMetFor(tms, us, u, ch) ==
    IF ch.id = "daily_5000" THEN Get(u.steps_log, today, 0) >= ch.target
    ELSE IF ch.id = "weekend_walkathon" THEN
        ~ FLess(WeekendTotal(u.distance_miles_log, SaturdayOf(today)), FWhole(ch.target))
    ELSE IF ch.id = "photo_share" THEN u.photos_this_week >= 1
    ELSE IF ch.id = "invite_3" THEN u.invites_this_month >= ch.target
    ELSE IF ch.id = "team_100_miles" THEN
        HasTeam(tms, u) /\ ~ FLess(TeamTotal(us, tms[u.team]), FWhole(ch.target))
    ELSE IF ch.id = "relay_pass_baton" THEN
        HasTeam(tms, u) /\ OkForAll(us, tms[u.team], ch.target)
    ELSE IF ch.id = "city_explorer" THEN
        Cardinality(u.routes_completed_month) >= ch.target
    ELSE IF ch.custom THEN CustomMet(u, ch)
    ELSE FALSE

TargetMet(tms, us, user_id, ch) == TargetMetFor(tms, us, us[user_id], ch)

\* ensure_user(member) for the members a team branch reads.
RECURSIVE EnsureAll(_, _)
EnsureFrom(us, ids, m) == EnsureAll(ensure_user(us, m), ids \ {m})
EnsureAll(us, ids) ==
    IF ids = {} THEN us ELSE EnsureFrom(us, ids, CHOOSE x \in ids : TRUE)

TeamRead(tms, us, user_id, ch) ==
    IF ch.id \in {"team_100_miles", "relay_pass_baton"} /\ HasTeam(tms, us[user_id])
    THEN EnsureAll(us, tms[us[user_id].team])
    ELSE us

\* The early return without its test of the joined flag.
SkipsWhenCompleted(rec) == rec.completed

\* The early return without its test of the completed flag.
SkipsWhenLeft(rec) == ~ rec.joined

\* The early return of complete_challenge_if_eligible.
SkipsEvaluation(rec) == rec.completed \/ ~ rec.joined

\* The log of payments: one more payment of a challenge to a user, counted
\* under the period key of the day it is made.
CreditAfter(old, key) ==
    [key |-> key, n |-> IF old.key = key THEN old.n + 1 ELSE 1]

Credit(cr, user_id, ch_id, key) ==
    Put(cr, << user_id, ch_id >>,
        CreditAfter(Get(cr, << user_id, ch_id >>, [key |-> None, n |-> 0]), key))

\* uc["completed"] = True; add_points(...); return True
Complete(S, user_id, ch, uc1, us1) ==
    [S EXCEPT !.uc = [uc1 EXCEPT ![user_id][ch.id].completed = TRUE],
              !.users = add_points(us1, user_id, ch.reward_points),
              !.credited = Credit(@, user_id, ch.id, _period_key(ch)),
              !.ret = TRUE]

Evaluate(S, user_id, ch, uc1, us1) ==
    IF TargetMet(S.teams, us1, user_id, ch)
    THEN Complete(S, user_id, ch, uc1, us1)
    ELSE [S EXCEPT !.uc = uc1, !.users = us1, !.ret = FALSE]

CompleteAfterEnsure(S, user_id, ch, uc1) ==
    IF SkipsEvaluation(uc1[user_id][ch.id])
    THEN [S EXCEPT !.uc = uc1, !.ret = FALSE]
    ELSE Evaluate(S, user_id, ch, uc1,
                  TeamRead(S.teams, ensure_user(S.users, user_id), user_id, ch))

\* complete_challenge_if_eligible: the session after the call, the call's
\* return value in ret.
complete_challenge_if_eligible(S, user_id, ch) ==
    CompleteAfterEnsure(S, user_id, ch,
                        _ensure_user_challenge(S.uc, S.custom, user_id, ch.id))

\* One call as the run observes it: the record the call found, the record
\* it left, what it returned and what it paid.
Observed(S1, S2, user_id, ch) ==
    [S2 EXCEPT !.evals = Put(@, ch.id,
        [pre  |-> S1.uc[user_id][ch.id],
         post |-> S2.uc[user_id][ch.id],
         ret  |-> S2.ret,
         paid |-> S2.users[user_id].points - S1.users[user_id].points])]

CallComplete(S1, user_id, ch) ==
    Observed(S1, complete_challenge_if_eligible(S1, user_id, ch), user_id, ch)

\* update_challenges_progress_after_walk / _after_invite: for every catalog
\* and custom challenge, _ensure_user_challenge, then
\* complete_challenge_if_eligible.
RECURSIVE UpdateLoop(_, _, _)
UpdateStep(S, user_id, ch, rest) ==
    UpdateLoop(CallComplete(
                   [S EXCEPT !.uc = _ensure_user_challenge(@, S.custom, user_id, ch.id)],
                   user_id, ch),
               user_id, rest)
UpdateLoop(S, user_id, list) ==
    IF list = << >> THEN S ELSE UpdateStep(S, user_id, Head(list), Tail(list))

\* An update that evaluates the catalog and leaves the custom challenges out.
CatalogOnly(S, user_id) == UpdateLoop(S, user_id, challenge_catalog)

update_challenges_progress(S, user_id) ==
    UpdateLoop(S, user_id, challenge_catalog \o S.custom)

(***************************************************************************)
(* The handlers.                                                           *)
(***************************************************************************)
\* A streak bonus that adds the 7-day bonus to the 30-day bonus.
BothBonuses(streak) ==
    (IF streak >= 30 THEN POINT_RULES.streak_30 ELSE 0)
      + (IF streak >= 7 THEN POINT_RULES.streak_7 ELSE 0)

\* The points award_walk gains for a walk, the streak being known.
StreakBonus(streak) ==
    IF streak >= 30 THEN POINT_RULES.streak_30
    ELSE IF streak >= 7 THEN POINT_RULES.streak_7
    ELSE 0

Gained(minutes, is_group, shared_photo, streak) ==
    minutes * POINT_RULES.base_per_minute
      + (IF is_group THEN POINT_RULES.group_walk_bonus ELSE 0)
      + (IF shared_photo THEN POINT_RULES.photo_share ELSE 0)
      + StreakBonus(streak)

\* The user record after award_walk's own writes.
Logged(u, w, gained) ==
    [u EXCEPT !.walk_dates = Append(@, today),
              !.minutes_log = Put(@, today, Get(@, today, 0) + w.minutes),
              !.steps_log = Put(@, today, Get(@, today, 0) + w.steps),
              !.distance_miles_log =
                  Put(@, today, FAdd(Get(@, today, FZero), FloatOf(w.miles))),
              !.photos_this_week = IF w.shared_photo THEN @ + 1 ELSE @,
              !.points = @ + gained]

\* A return whose gained value takes in the rewards the call paid.
PaidIn(evals) == SumOver([c \in DOMAIN evals |-> evals[c].paid], DOMAIN evals)

ReturnsGainedWithRewards(S, user_id, gained, streak) ==
    [S EXCEPT !.ret = << gained + PaidIn(S.evals), S.users[user_id].points, streak >>]

AwardReturn(S, user_id, gained, streak) ==
    [S EXCEPT !.ret = << gained, S.users[user_id].points, streak >>]

AwardStreak(S, us, user_id, w, streak) ==
    AwardReturn(
        update_challenges_progress(
            [S EXCEPT !.users = [us EXCEPT ![user_id] =
                Logged(@, w, Gained(w.minutes, w.is_group, w.shared_photo, streak))]],
            user_id),
        user_id, Gained(w.minutes, w.is_group, w.shared_photo, streak), streak)

AwardTo(S, us, user_id, w) ==
    AwardStreak(S, us, user_id, w, calc_streak(Append(us[user_id].walk_dates, today)))

\* award_walk for the walk w (minutes, steps, miles, is_group,
\* shared_photo); ret is the returned (gained, points, streak).
award_walk(S, user_id, w) == AwardTo(S, ensure_user(S.users, user_id), user_id, w)

InviteReturn(S, inviter_id) == [S EXCEPT !.ret = S.users[inviter_id].points]

InviteTo(S, us, inviter_id) ==
    InviteReturn(
        update_challenges_progress(
            [S EXCEPT !.users =
                [us EXCEPT ![inviter_id].points = @ + POINT_RULES.invite_bonus,
                           ![inviter_id].invites_this_month = @ + 1]],
            inviter_id),
        inviter_id)

\* invite_friend; ret is the returned points.
invite_friend(S, inviter_id) == InviteTo(S, ensure_user(S.users, inviter_id), inviter_id)

\* A Join Team that sets the affiliation and creates the team, the user
\* not being added to its member set.
JoinTeamUnlisted(S, user_id, team_name) ==
    [S EXCEPT !.users = [ensure_user(@, user_id) EXCEPT ![user_id].team = team_name],
              !.teams = Put(@, team_name, Get(@, team_name, {}))]

\* A Join Team that takes the user out of the other teams' member sets.
JoinTeamMoving(S, user_id, team_name) ==
    [S EXCEPT !.users = [ensure_user(@, user_id) EXCEPT ![user_id].team = team_name],
              !.teams = [t \in DOMAIN @ \cup {team_name} |->
                            IF t = team_name THEN Get(@, t, {}) \cup {user_id}
                            ELSE @[t] \ {user_id}]]

\* The sidebar's Join Team button.
JoinTeam(S, user_id, team_name) ==
    [S EXCEPT !.users = [ensure_user(@, user_id) EXCEPT ![user_id].team = team_name],
              !.teams = Put(@, team_name, Get(@, team_name, {}) \cup {user_id})]

\* A write of the joined flag that clears the completed flag with it.
SetJoinedAfresh(uc1, user_id, ch_id, v) ==
    [uc1 EXCEPT ![user_id][ch_id].joined = v, ![user_id][ch_id].completed = FALSE]

SetJoined(uc1, user_id, ch_id, v) == [uc1 EXCEPT ![user_id][ch_id].joined = v]

\* join_challenge.
join_challenge(S, user_id, ch_id) ==
    [S EXCEPT !.uc = SetJoined(_ensure_user_challenge(@, S.custom, user_id, ch_id),
                               user_id, ch_id, TRUE)]

\* join_or_leave_ui after its _ensure_user_challenge, button b pressed.
JoinOrLeave(S, user_id, ch, b) ==
    IF S.uc[user_id][ch.id].joined
    THEN IF b.kind = "leave" /\ b.arg = ch.id
         THEN [S EXCEPT !.uc = SetJoined(@, user_id, ch.id, FALSE)]
         ELSE S
    ELSE IF b.kind = "join" /\ b.arg = ch.id
         THEN join_challenge(S, user_id, ch.id)
         ELSE S

join_or_leave_ui(S, user_id, ch, b) ==
    JoinOrLeave([S EXCEPT !.uc = _ensure_user_challenge(@, S.custom, user_id, ch.id)],
                user_id, ch, b)

\* show_progress_ui after its _ensure_user_challenge and ensure_user: the
\* Check & Complete button is there for a joined, not completed record.
CheckButton(S, user_id, ch, b) ==
    IF /\ S.uc[user_id][ch.id].joined /\ ~ S.uc[user_id][ch.id].completed
       /\ b.kind = "complete" /\ b.arg = ch.id
    THEN CallComplete(S, user_id, ch)
    ELSE S

show_progress_ui(S, user_id, ch, b) ==
    CheckButton([S EXCEPT !.uc = _ensure_user_challenge(@, S.custom, user_id, ch.id),
                          !.users = ensure_user(@, user_id)],
                user_id, ch, b)

\* The loop of the Challenges tab.
RECURSIVE ChallengesLoop(_, _, _, _)
ChallengesLoop(S, user_id, list, b) ==
    IF list = << >> THEN S
    ELSE ChallengesLoop(
             show_progress_ui(join_or_leave_ui(S, user_id, Head(list), b),
                              user_id, Head(list), b),
             user_id, Tail(list), b)

\* create_custom_challenge: c gives metric, target (target_value), period
\* and reward_points.
create_custom_challenge(S, c) ==
    [S EXCEPT !.custom = Append(@,
        [id |-> CustomIds[Len(@) + 1], target |-> c.target, period |-> c.period,
         reward_points |-> c.reward_points, custom |-> TRUE, metric |-> c.metric])]

\* create_team_battle.
create_team_battle(S, team_a, team_b, days, reward_points) ==
    [S EXCEPT !.battles = Append(@,
        [team_a |-> team_a, team_b |-> team_b, start_date |-> today,
         end_date |-> today + days, reward_points |-> reward_points,
         winner |-> None])]

\* The loop of compute_team_distance_for_range: date by date, total
\* starting at 0.0.
RangeLoop(us, members, cur, end) == DaysLoop(us, members, cur, end, FZero)

\* The total over the window without its end date.
DistanceBeforeEnd(S, team, start, end) ==
    IF team \notin DOMAIN S.teams THEN FZero
    ELSE RangeLoop(S.users, S.teams[team], start, end - 1)

compute_team_distance_for_range(S, team, start, end) ==
    IF team \notin DOMAIN S.teams THEN FZero
    ELSE RangeLoop(S.users, S.teams[team], start, end)

\* if a_total > b_total ... elif b_total > a_total ... else "draw"
WinnerOf(bt, a_total, b_total) ==
    IF FLess(b_total, a_total) THEN << bt.team_a >>
    ELSE IF FLess(a_total, b_total) THEN << bt.team_b >>
    ELSE << "draw" >>

\* A settlement that is due on the end date already.
DueOnEndDate(bt) == bt.winner = None /\ today >= bt.end_date

\* The condition under which settle_battles settles a battle.
Due(bt) == bt.winner = None /\ today > bt.end_date

Settle(S, bt) ==
    IF Due(bt)
    THEN [bt EXCEPT !.winner = WinnerOf(bt,
            compute_team_distance_for_range(S, bt.team_a, bt.start_date, bt.end_date),
            compute_team_distance_for_range(S, bt.team_b, bt.start_date, bt.end_date))]
    ELSE bt

\* A settlement that credits the reward_points of the battles it settles to
\* every user.
RewardDue(S) ==
    SumOver([i \in 1..Len(S.battles) |->
                IF Due(S.battles[i]) THEN S.battles[i].reward_points ELSE 0],
            1..Len(S.battles))

SettleAndReward(S) ==
    [S EXCEPT !.battles = [i \in 1..Len(S.battles) |-> Settle(S, S.battles[i])],
              !.users = [v \in DOMAIN S.users |->
                            [S.users[v] EXCEPT !.points = @ + RewardDue(S)]]]

settle_battles(S) ==
    [S EXCEPT !.battles = [i \in 1..Len(S.battles) |-> Settle(S, S.battles[i])]]

\* A Redeem button that is never disabled.
NeverDisabled(u, item) == TRUE

\* can_redeem of the Rewards tab.
can_redeem(u, item) == u.points >= reward_catalog[item]

\* The Redeem button of one reward: disabled unless can_redeem.
redeem(S, user_id, item) ==
    IF can_redeem(S.users[user_id], item)
    THEN [S EXCEPT !.users[user_id].points = @ - reward_catalog[item], !.ret = TRUE]
    ELSE [S EXCEPT !.ret = FALSE]

\* add_route (the routes list itself is not modelled).
add_route(S, user_id, name) ==
    [S EXCEPT !.users = [ensure_user(@, user_id) EXCEPT
                            ![user_id].routes_completed_month = @ \cup {name}]]

(***************************************************************************)
(* One run of the script for the user in the sidebar, button b pressed     *)
(* (b.kind = "none": a rerun without a button).                            *)
(***************************************************************************)
Button(kind, arg) == [kind |-> kind, arg |-> arg]

Session ==
    [users |-> users, teams |-> teams, uc |-> user_challenges,
     custom |-> custom_challenges, battles |-> team_battles,
     credited |-> credited, evals |-> << >>, ret |-> None]

Sidebar(S, user_id, b) ==
    IF b.kind = "join_team" THEN JoinTeam(S, user_id, b.arg) ELSE S

Dashboard(S, user_id) == [S EXCEPT !.users = ensure_user(@, user_id)]

LogWalkTab(S, user_id, b) ==
    IF b.kind = "walk" THEN award_walk(S, user_id, b.arg)
    ELSE IF b.kind = "invite" THEN invite_friend(S, user_id)
    ELSE S

CreateForm(S, b) ==
    IF b.kind = "create_challenge" THEN create_custom_challenge(S, b.arg) ELSE S

ChallengesTab(S, user_id, b) ==
    CreateForm(ChallengesLoop(S, user_id, challenge_catalog \o S.custom, b), b)

CreateBattleButton(S, b) ==
    IF /\ b.kind = "create_battle"
       /\ b.arg.team_a # "" /\ b.arg.team_b # "" /\ b.arg.team_a # b.arg.team_b
    THEN create_team_battle(S, b.arg.team_a, b.arg.team_b, b.arg.days,
                            b.arg.reward_points)
    ELSE S

CommunityTab(S, b) == CreateBattleButton(settle_battles(S), b)

RewardsTab(S, user_id, b) ==
    IF b.kind = "redeem" THEN redeem(S, user_id, b.arg) ELSE S

RoutesTab(S, user_id, b) ==
    IF b.kind = "add_route" /\ b.arg # "" THEN add_route(S, user_id, b.arg) ELSE S

\* The script from top to bottom.
Script(user_id, b) ==
    RoutesTab(
      RewardsTab(
        CommunityTab(
          ChallengesTab(
            LogWalkTab(
              Dashboard(Sidebar(Session, user_id, b), user_id),
              user_id, b),
            user_id, b),
          b),
        user_id, b),
      user_id, b)

\* What was submitted with the Log Walk form, per user and date: the miles
\* added up as whole hundredths, and the number of walks with a photo.
NothingTyped == [miles |-> 0, photos |-> 0]

TypedAfter(old, w) ==
    [miles |-> old.miles + w.miles,
     photos |-> old.photos + (IF w.shared_photo THEN 1 ELSE 0)]

Typed(ty, user_id, w) ==
    Put(ty, << user_id, today >>,
        TypedAfter(Get(ty, << user_id, today >>, NothingTyped), w))

\* The session state the run leaves, and what the run did.
Commit(S, user_id, b) ==
    /\ users' = S.users
    /\ teams' = S.teams
    /\ user_challenges' = S.uc
    /\ custom_challenges' = S.custom
    /\ team_battles' = S.battles
    /\ credited' = S.credited
    /\ typed' = IF b.kind = "walk" THEN Typed(typed, user_id, b.arg) ELSE typed
    /\ last' = [op |-> b.kind, user |-> user_id, arg |-> b.arg,
                ret |-> S.ret, evals |-> S.evals]
    /\ UNCHANGED today

Run(user_id, b) == Commit(Script(user_id, b), user_id, b)

\* The record of (user, challenge) as the Challenges tab finds it today.
Shown(user_id, ch) ==
    EnsuredRecord(user_challenges, custom_challenges, user_id, ch.id)

Rerun(u) == Run(u, Button("none", None))
JoinTeamRun(u, t) == Run(u, Button("join_team", t))
SubmitWalk(u, w) == Run(u, Button("walk", w))
SendInvite(u) == Run(u, Button("invite", None))
JoinChallenge(u, ch) == ~ Shown(u, ch).joined /\ Run(u, Button("join", ch.id))
LeaveChallenge(u, ch) == Shown(u, ch).joined /\ Run(u, Button("leave", ch.id))
CheckComplete(u, ch) ==
    /\ Shown(u, ch).joined /\ ~ Shown(u, ch).completed
    /\ Run(u, Button("complete", ch.id))
CreateChallenge(u, c) == Run(u, Button("create_challenge", c))
CreateBattle(u, bt) == Run(u, Button("create_battle", bt))
Redeem(u, item) == Run(u, Button("redeem", item))
AddRoute(u, name) == Run(u, Button("add_route", name))

\* A day passes.
Tick ==
    /\ today' = today + 1
    /\ UNCHANGED << users, teams, custom_challenges, user_challenges,
                    team_battles, credited, typed, last >>

Init ==
    /\ today = StartDay
    /\ users = << >>
    /\ teams = << >>
    /\ custom_challenges = << >>
    /\ user_challenges = << >>
    /\ team_battles = << >>
    /\ credited = << >>
    /\ typed = << >>
    /\ last = [op |-> "init", user |-> "", arg |-> None, ret |-> None,
               evals |-> << >>]

(***************************************************************************)
(* The inputs and the bounds of the exploration.                           *)
(***************************************************************************)
Users == {"u1", "u2"}

\* The Log Walk form's values, for a whole number of miles: the record holds
\* the miles as the form shows them (%.2f), in hundredths.
Walk(minutes, steps, miles, is_group, shared_photo) ==
    [minutes |-> minutes, steps |-> steps, miles |-> 100 * miles,
     is_group |-> is_group, shared_photo |-> shared_photo]

TotalWalks == SumOver([u \in DOMAIN users |-> Len(users[u].walk_dates)], DOMAIN users)

TotalInvites == SumOver([u \in DOMAIN users |-> users[u].invites_this_month], DOMAIN users)

RoutesOf(u) == IF u \in DOMAIN users THEN users[u].routes_completed_month ELSE {}

TotalRoutes == Cardinality(UNION {RoutesOf(u) : u \in DOMAIN users})

TeamOf(u) == IF u \in DOMAIN users THEN users[u].team ELSE NoTeam

AllChallenges == challenge_catalog \o custom_challenges

ChallengeSet == {AllChallenges[i] : i \in 1..Len(AllChallenges)}

\* The challenge ids some user has joined or completed a record of.
Touched ==
    {c \in {ch.id : ch \in ChallengeSet} :
        \E u \in DOMAIN user_challenges :
            /\ c \in DOMAIN user_challenges[u]
            /\ user_challenges[u][c].joined \/ user_challenges[u][c].completed}

(***************************************************************************)
(* Spec: the challenge life cycle.  u1 uses every challenge control; u2 is *)
(* the teammate who joins u1's team and logs walks on the first day.  A    *)
(* behaviour feeds one kind of input (walks and teams, or invites, or      *)
(* routes) and works on one challenge at a time, across the day, weekend,  *)
(* month and week boundaries that follow StartDay.                         *)
(***************************************************************************)
MaxDays == 2
MaxWalks == 2
MaxInvites == 3
MaxRoutes == 5

\* Half of the daily step target, half of the team mileage target.
HalfWalk == Walk(30, 3000, 50, TRUE, TRUE)

CustomInputs ==
    { [metric |-> "miles", target |-> 10, period |-> "weekly", reward_points |-> 100] }

RouteNames == << "r1", "r2", "r3", "r4", "r5", "r6", "r7", "r8" >>

NextRoute(u) == RouteNames[Cardinality(RoutesOf(u)) + 1]

WalkOnly == TotalInvites = 0 /\ TotalRoutes = 0

InviteOnly ==
    TotalWalks = 0 /\ TotalRoutes = 0 /\ DOMAIN teams = {} /\ custom_challenges = << >>

RouteOnly ==
    TotalWalks = 0 /\ TotalInvites = 0 /\ DOMAIN teams = {} /\ custom_challenges = << >>

Next ==
    \/ today < StartDay + MaxDays /\ Tick
    \/ Rerun("u1")
    \/ WalkOnly /\ JoinTeamRun("u1", "A")
    \/ WalkOnly /\ today = StartDay /\ TeamOf("u1") = "A" /\ JoinTeamRun("u2", "A")
    \/ WalkOnly /\ TotalWalks < MaxWalks /\ SubmitWalk("u1", HalfWalk)
    \/ WalkOnly /\ TotalWalks < MaxWalks /\ today = StartDay /\ TeamOf("u2") = "A"
           /\ SubmitWalk("u2", HalfWalk)
    \/ InviteOnly /\ TotalInvites < MaxInvites /\ SendInvite("u1")
    \/ RouteOnly /\ TotalRoutes < MaxRoutes /\ AddRoute("u1", NextRoute("u1"))
    \/ WalkOnly /\ custom_challenges = << >>
           /\ \E c \in CustomInputs : CreateChallenge("u1", c)
    \/ \E ch \in ChallengeSet : Touched \subseteq {ch.id} /\ JoinChallenge("u1", ch)
    \/ \E ch \in ChallengeSet : LeaveChallenge("u1", ch)
    \/ \E ch \in ChallengeSet : CheckComplete("u1", ch)

Spec == Init /\ [][Next]_vars

(***************************************************************************)
(* C1.  For every user and every challenge, built-in or custom, the        *)
(* challenge's reward_points are credited to the user's balance at most    *)
(* once while the challenge's period key stays the same, whatever the      *)
(* user does meanwhile: join, leave, re-join, log a walk, send an invite,  *)
(* add a route, join a team, press Check & Complete.                       *)
(***************************************************************************)
RewardAtMostOncePerPeriod ==
    \A k \in DOMAIN credited : credited[k].n <= 1

\* A challenge paid in the current period was evaluated again in that
\* period, found completed.
PaidChallengeEvaluatedAgain ==
    \E ch \in ChallengeSet :
        /\ << last.user, ch.id >> \in DOMAIN credited
        /\ credited[<< last.user, ch.id >>].key = _period_key(ch)
        /\ ch.id \in DOMAIN last.evals
        /\ last.evals[ch.id].pre.completed
        /\ last.evals[ch.id].pre.joined

(***************************************************************************)
(* C2.  A call of complete_challenge_if_eligible that finds the progress   *)
(* record already completed in the current period, or not joined, returns  *)
(* False and changes neither the user's point balance nor the completed    *)
(* flag, even when the challenge's target predicate holds.                 *)
(***************************************************************************)
CompletedOrLeftIsNoOp ==
    \A c \in DOMAIN last.evals :
        (last.evals[c].pre.completed \/ ~ last.evals[c].pre.joined)
            => /\ last.evals[c].ret = FALSE
               /\ last.evals[c].paid = 0
               /\ last.evals[c].post.completed = last.evals[c].pre.completed

\* One run evaluated a completed challenge and a challenge that is not
\* joined, the target of both being met.
NoOpCallsWithTargetMet ==
    \E c, d \in ChallengeSet :
        /\ c.id \in DOMAIN last.evals /\ d.id \in DOMAIN last.evals
        /\ last.evals[c.id].pre.completed /\ last.evals[c.id].pre.joined
        /\ last.evals[c.id].pre.last_reset = _period_key(c)
        /\ ~ last.evals[d.id].pre.joined /\ ~ last.evals[d.id].pre.completed
        /\ TargetMet(teams, users, last.user, c)
        /\ TargetMet(teams, users, last.user, d)

(***************************************************************************)
(* SpecDaily: one user and the daily-steps challenge over two days, each   *)
(* walk half of the daily target.                                          *)
(***************************************************************************)
MaxDailyDays == 1
MaxDailyWalks == 4

DailyChallenge == CHOOSE ch \in ChallengeSet : ch.id = "daily_5000"

StepsOn(u, n) == Get(users[u].steps_log, n, 0)

NextDaily ==
    \/ today < StartDay + MaxDailyDays /\ Tick
    \/ Rerun("u1")
    \/ TotalWalks < MaxDailyWalks /\ SubmitWalk("u1", HalfWalk)
    \/ JoinChallenge("u1", DailyChallenge)
    \/ LeaveChallenge("u1", DailyChallenge)
    \/ CheckComplete("u1", DailyChallenge)

SpecDaily == Init /\ [][NextDaily]_vars

(***************************************************************************)
(* C3.  When daily_5000 was completed on day D and the clock has moved to  *)
(* D+1, the next run that touches the record leaves it keyed D+1 with      *)
(* completed = false unless it completes again, and it completes again     *)
(* (and pays) exactly when the steps logged on D+1 alone reach the target: *)
(* the steps of D do not count.  After every run of a user, the user's     *)
(* daily_5000 record carries today's key, is completed only if today's     *)
(* steps reach the target, and a call that found it joined and not         *)
(* completed returned True iff today's steps reach the target.             *)
(***************************************************************************)
DailyRecordAfterRun(u) ==
    LET r == user_challenges'[u]["daily_5000"]
        enough == Get(users'[u].steps_log, today, 0) >= DailyChallenge.target
    IN  /\ r.last_reset = << "daily", today >>
        /\ r.completed => enough
        /\ ("daily_5000" \in DOMAIN last'.evals
              /\ last'.evals["daily_5000"].pre.joined
              /\ ~ last'.evals["daily_5000"].pre.completed)
            => /\ last'.evals["daily_5000"].ret = enough
               /\ r.completed = enough
               /\ last'.evals["daily_5000"].paid =
                      IF enough THEN DailyChallenge.reward_points ELSE 0

DailyRolloverCountsTodayOnly ==
    [][ (today' = today /\ last'.user \in DOMAIN user_challenges')
            => DailyRecordAfterRun(last'.user) ]_vars

\* Paid on day D, evaluated on D+1 and not completed: the steps of D+1 are
\* short of the target, the steps of D and D+1 together are not.
DailyNotCompletedByYesterdaysSteps ==
    /\ << "u1", "daily_5000" >> \in DOMAIN credited
    /\ credited[<< "u1", "daily_5000" >>].key = << "daily", today - 1 >>
    /\ last.user = "u1" /\ "daily_5000" \in DOMAIN last.evals
    /\ last.evals["daily_5000"].pre.joined
    /\ last.evals["daily_5000"].pre.last_reset = << "daily", today >>
    /\ last.evals["daily_5000"].ret = FALSE
    /\ user_challenges["u1"]["daily_5000"].completed = FALSE
    /\ StepsOn("u1", today) > 0
    /\ StepsOn("u1", today) < DailyChallenge.target
    /\ StepsOn("u1", today) + StepsOn("u1", today - 1) >= DailyChallenge.target

(***************************************************************************)
(* SpecRewards: the point balance under every operation of the script.     *)
(* u1 uses every control, u2 only the Redeem buttons.                      *)
(***************************************************************************)
MaxRewardDays == 1
MaxRewardWalks == 1
MaxRewardInvites == 1
MaxRewardRoutes == 1

LongWalk == Walk(300, 3000, 50, TRUE, TRUE)

RewardInputs == {"badge_10_walks", "coupon_cafe", "giftcard"}

FreeChallenge ==
    [metric |-> "minutes", target |-> 1, period |-> "daily", reward_points |-> 0]

BattleInputs ==
    { [team_a |-> "A", team_b |-> "B", days |-> 1, reward_points |-> 100] }

PhotoChallenge == CHOOSE ch \in ChallengeSet : ch.id = "photo_share"

RewardChallenges == {PhotoChallenge} \cup {ch \in ChallengeSet : ch.custom}

\* The features a behaviour has used besides walks and redemptions; a
\* behaviour of SpecRewards uses one.
FeaturesUsed ==
    {f \in {"invite", "route", "team", "battle", "challenge"} :
        \/ f = "invite" /\ TotalInvites > 0
        \/ f = "route" /\ TotalRoutes > 0
        \/ f = "team" /\ teams # << >>
        \/ f = "battle" /\ team_battles # << >>
        \/ f = "challenge" /\ (custom_challenges # << >> \/ Touched # {})}

Only(f) == FeaturesUsed \subseteq {f}

NextRewards ==
    \/ today < StartDay + MaxRewardDays /\ Tick
    \/ Rerun("u1")
    \/ TotalWalks < MaxRewardWalks /\ SubmitWalk("u1", LongWalk)
    \/ \E u \in Users : \E item \in RewardInputs : Redeem(u, item)
    \/ Only("team") /\ teams = << >> /\ JoinTeamRun("u1", "A")
    \/ Only("invite") /\ TotalInvites < MaxRewardInvites /\ SendInvite("u1")
    \/ Only("route") /\ TotalRoutes < MaxRewardRoutes /\ AddRoute("u1", NextRoute("u1"))
    \/ Only("challenge") /\ custom_challenges = << >> /\ CreateChallenge("u1", FreeChallenge)
    \/ Only("challenge") /\ \E ch \in RewardChallenges : JoinChallenge("u1", ch)
    \/ \E ch \in RewardChallenges : LeaveChallenge("u1", ch)
    \/ \E ch \in RewardChallenges : CheckComplete("u1", ch)
    \/ Only("battle") /\ team_battles = << >>
           /\ \E bt \in BattleInputs : CreateBattle("u1", bt)

SpecRewards == Init /\ [][NextRewards]_vars

BalanceOf(u) == IF u \in DOMAIN users THEN users[u].points ELSE 0

RedeemOutcome(u, item) ==
    /\ \A v \in DOMAIN users \ {u} : users'[v].points = users[v].points
    /\ IF reward_catalog[item] > BalanceOf(u)
       THEN /\ last'.ret = FALSE
            /\ users'[u].points = BalanceOf(u)
            /\ users' = Script(u, Button("none", None)).users
            /\ teams' = teams
            /\ custom_challenges' = custom_challenges
            /\ user_challenges' = Script(u, Button("none", None)).uc
            /\ team_battles' = Script(u, Button("none", None)).battles
            /\ credited' = credited
       ELSE /\ last'.ret = TRUE
            /\ users'[u].points = BalanceOf(u) - reward_catalog[item]
            /\ users'[u].points >= 0

MaxStreakDays == 4
MaxWalksADay == 2

ShortWalk == Walk(1, 0, 0, FALSE, FALSE)

WalksToday(u) ==
    IF u \in DOMAIN users THEN WalksIn(users[u].walk_dates, {today}) ELSE 0

\* calc_streak(u["walk_dates"]) called on the list as it stands.
CalcStreak(u) ==
    /\ u \in DOMAIN users
    /\ last' = [op |-> "calc_streak", user |-> u,
                arg |-> [dates |-> users[u].walk_dates, today |-> today],
                ret |-> calc_streak(users[u].walk_dates), evals |-> << >>]
    /\ UNCHANGED << today, users, teams, custom_challenges, user_challenges,
                    team_battles, credited, typed >>

NextStreak ==
    \/ today < StartDay + MaxStreakDays /\ Tick
    \/ Rerun("u1")
    \/ WalksToday("u1") < MaxWalksADay /\ SubmitWalk("u1", ShortWalk)
    \/ CalcStreak("u1")

SpecStreak == Init /\ [][NextStreak]_vars

(***************************************************************************)
(* C6.  calc_streak returns the number k of consecutive calendar days      *)
(* today, today-1, ..., today-(k-1) that each have at least one event,     *)
(* stopping at the first day without one: 0 for the empty list and for a   *)
(* list with no event dated today, 3 for {today, today-1, today-2}, 1 for  *)
(* {today, today-2}; several events on one day count once.                 *)
(***************************************************************************)
DaysOf(dates) == {dates[i] : i \in 1..Len(dates)}

\* The first k such that the day t - k has no event.
ConsecutiveDays(D, t) ==
    CHOOSE k \in 0..Cardinality(D) :
        /\ \A i \in 0..(k - 1) : t - i \in D
        /\ t - k \notin D

StreakIsConsecutiveDays ==
    last.op = "calc_streak"
        => last.ret = ConsecutiveDays(DaysOf(last.arg.dates), last.arg.today)

\* calc_streak was applied to a list with two events today, none yesterday
\* and one the day before.
StreakStopsAtGap ==
    /\ last.op = "calc_streak"
    /\ last.arg.today \in DaysOf(last.arg.dates)
    /\ last.arg.today - 1 \notin DaysOf(last.arg.dates)
    /\ last.arg.today - 2 \in DaysOf(last.arg.dates)
    /\ WalksIn(last.arg.dates, {last.arg.today}) = 2
    /\ last.ret = 1

(***************************************************************************)
(* SpecBonus: one user logging at most one walk a day for a month, always  *)
(* the same kind of walk, missing at most MaxGaps days.                    *)
(***************************************************************************)
MaxBonusDays == 30
MaxGaps == 1

BonusWalks == { Walk(30, 3000, 2, TRUE, TRUE), Walk(1, 0, 0, FALSE, FALSE) }

\* The days before today without a walk of u.
Gaps(u) ==
    (today - StartDay)
      - (IF u \in DOMAIN users
         THEN Cardinality(DaysOf(users[u].walk_dates) \ {today}) ELSE 0)

NextBonus ==
    \/ /\ today < StartDay + MaxBonusDays
       /\ WalksToday("u1") > 0 \/ Gaps("u1") < MaxGaps
       /\ Tick
    \/ \E w \in BonusWalks :
           /\ WalksToday("u1") = 0
           /\ last.op = "walk" => last.arg = w
           /\ SubmitWalk("u1", w)

SpecBonus == Init /\ [][NextBonus]_vars

(***************************************************************************)
(* C7.  The gained points award_walk returns are minutes * 1, plus 20 for  *)
(* a group walk, plus 5 for a shared photo, plus exactly one streak bonus: *)
(* 50 if the streak is >= 30, otherwise 10 if it is >= 7, otherwise 0.     *)
(* The streak is the one computed after today's walk was appended, so it   *)
(* is >= 1.  A 30-minute group walk with photo on a 10-day streak gains    *)
(* 65.                                                                     *)
(***************************************************************************)
\* walk_dates of the user of the last run; its last entry is the day of
\* that run when the run logged a walk.
LastWalkDates == users[last.user].walk_dates

GainedIsBasePlusBonuses ==
    last.op = "walk"
        => LET gained == last.ret[1]
               streak == last.ret[3]
           IN  /\ streak = ConsecutiveDays(DaysOf(LastWalkDates),
                                           LastWalkDates[Len(LastWalkDates)])
               /\ streak >= 1
               /\ gained = last.arg.minutes
                            + (IF last.arg.is_group THEN 20 ELSE 0)
                            + (IF last.arg.shared_photo THEN 5 ELSE 0)
                            + (IF streak >= 30 THEN 50
                               ELSE IF streak >= 7 THEN 10 ELSE 0)

\* A 30-minute group walk with photo on the tenth day of a streak gained 65.
TenDayStreakGains65 ==
    /\ last.op = "walk"
    /\ last.arg.minutes = 30 /\ last.arg.is_group /\ last.arg.shared_photo
    /\ last.ret[3] = 10
    /\ last.ret[1] = 65

(***************************************************************************)
(* SpecRelay: two users, one team, the relay challenge; walks of half the  *)
(* per-member target and of exactly the target, over the Sunday that ends  *)
(* ISO week 48 and the Monday that opens week 49.                          *)
(***************************************************************************)
MaxRelayDays == 2
MaxRelayWalks == 2

RelayChallenge == CHOOSE ch \in ChallengeSet : ch.id = "relay_pass_baton"

RelayWalks ==
    { Walk(30, 0, RelayChallenge.target \div 2, FALSE, FALSE),
      Walk(30, 0, RelayChallenge.target, FALSE, FALSE) }

NextRelay ==
    \/ today < StartDay + MaxRelayDays /\ Tick
    \/ Rerun("u1")
    \/ \E u \in Users : TeamOf(u) = NoTeam /\ JoinTeamRun(u, "A")
    \/ TotalWalks < MaxRelayWalks
           /\ \E u \in Users : \E w \in RelayWalks : SubmitWalk(u, w)
    \/ JoinChallenge("u1", RelayChallenge)
    \/ LeaveChallenge("u1", RelayChallenge)
    \/ CheckComplete("u1", RelayChallenge)

SpecRelay == Init /\ [][NextRelay]_vars

(***************************************************************************)
(* C8.  relay_pass_baton, evaluated for a user whose record is joined and  *)
(* not completed, completes exactly when the user's team exists and every  *)
(* member of that team has logged at least the per-member target miles     *)
(* over the current ISO week, Monday to Sunday: one member below the       *)
(* target keeps it from completing, and it never completes for a team      *)
(* without members.                                                        *)
(***************************************************************************)
\* Monday is weekday 0: the dates of the Monday-to-Sunday week of day n.
WeekAround(n) == {d \in (n - 6)..(n + 6) : d - Weekday(d) = n - Weekday(n)}

MilesThisWeek(m) ==
    SumOver([d \in WeekAround(today) |->
                MilesOf(Get(users'[m].distance_miles_log, d, FZero))],
            WeekAround(today))

RelayShouldComplete(u) ==
    /\ users'[u].team # NoTeam
    /\ users'[u].team \in DOMAIN teams'
    /\ teams'[users'[u].team] # {}
    /\ \A m \in teams'[users'[u].team] : MilesThisWeek(m) >= RelayChallenge.target

RelayCompletesIffEveryMember ==
    [][ ( /\ today' = today
          /\ "relay_pass_baton" \in DOMAIN last'.evals
          /\ last'.evals["relay_pass_baton"].pre.joined
          /\ ~ last'.evals["relay_pass_baton"].pre.completed )
            => /\ last'.evals["relay_pass_baton"].ret = RelayShouldComplete(last'.user)
               /\ last'.evals["relay_pass_baton"].post.completed
                      = RelayShouldComplete(last'.user) ]_vars

\* The relay completed for a team of two whose members each logged exactly
\* the target this week.
RelayCompletedAtExactTarget ==
    /\ "relay_pass_baton" \in DOMAIN last.evals
    /\ last.evals["relay_pass_baton"].ret = TRUE
    /\ Cardinality(teams[users[last.user].team]) = 2
    /\ \A m \in teams[users[last.user].team] :
           SumOver([d \in WeekAround(today) |->
                       MilesOf(Get(users[m].distance_miles_log, d, FZero))],
                   WeekAround(today))
               = RelayChallenge.target

(***************************************************************************)
(* SpecBattle: a one-day battle of team A against team B created on the    *)
(* first day, so that its window is Saturday and Sunday and it is due on   *)
(* Monday.  u1 joins A, u2 joins A or B or both in turn; each walk is one  *)
(* mile.                                                                   *)
(***************************************************************************)
MaxBattleDays == 2
MaxBattleWalks == 2

MileWalk == Walk(30, 0, 1, FALSE, FALSE)

NextBattle ==
    \/ today < StartDay + MaxBattleDays /\ Tick
    \/ Rerun("u1")
    \/ TeamOf("u1") = NoTeam /\ JoinTeamRun("u1", "A")
    \/ \E t \in {"A", "B"} : TeamOf("u2") # t /\ JoinTeamRun("u2", t)
    \/ TotalWalks < MaxBattleWalks /\ \E u \in Users : SubmitWalk(u, MileWalk)
    \/ today = StartDay /\ team_battles = << >>
           /\ \E bt \in BattleInputs : CreateBattle("u1", bt)

SpecBattle == Init /\ [][NextBattle]_vars

(***************************************************************************)
(* C9.  When settle_battles settles a battle, each side's total is the sum *)
(* of the miles logged by the members the team has at that moment on every *)
(* date of the inclusive window [start_date, end_date]; the team with the  *)
(* strictly higher total is recorded as winner, equal totals (two unknown  *)
(* teams, which both total 0, included) are recorded as "draw".            *)
(***************************************************************************)
\* The members of a team after the run; an unknown team has none.
MembersNow(team) == IF team \in DOMAIN teams' THEN teams'[team] ELSE {}

WindowTotal(team, bt) ==
    SumOver([p \in MembersNow(team) \X (bt.start_date..bt.end_date) |->
                MilesOf(Get(users'[p[1]].distance_miles_log, p[2], FZero))],
            MembersNow(team) \X (bt.start_date..bt.end_date))

ExpectedWinner(bt) ==
    IF WindowTotal(bt.team_a, bt) > WindowTotal(bt.team_b, bt) THEN << bt.team_a >>
    ELSE IF WindowTotal(bt.team_b, bt) > WindowTotal(bt.team_a, bt) THEN << bt.team_b >>
    ELSE << "draw" >>

SettledByWindowTotals ==
    [][ \A i \in 1..Len(team_battles) :
            (team_battles[i].winner = None /\ team_battles'[i].winner # None)
                => team_battles'[i].winner = ExpectedWinner(team_battles[i]) ]_vars

\* A battle was won by the side whose members logged more miles in the
\* window, a member of it having logged on the end date and the other side
\* having logged too.
BattleWonOnWindowTotals ==
    /\ team_battles # << >>
    /\ team_battles[1].winner = << "A" >>
    /\ "B" \in DOMAIN teams
    /\ \E m \in teams["A"] :
           MilesOf(Get(users[m].distance_miles_log, team_battles[1].end_date, FZero)) > 0
    /\ \E m \in teams["B"] : \E d \in team_battles[1].start_date..team_battles[1].end_date :
           MilesOf(Get(users[m].distance_miles_log, d, FZero)) > 0

(***************************************************************************)
(* C10.  A battle's winner stays unset while today <= end_date, is set by  *)
(* the first run of settle_battles on a date after end_date, and once set  *)
(* is never changed: not by a later settle_battles, not by a later walk,   *)
(* not by a later team join.                                               *)
(***************************************************************************)
\* The outcome the totals of the present state would give the first battle.
TotalNow(team, bt) ==
    IF team \in DOMAIN teams
    THEN RangeLoop(users, teams[team], bt.start_date, bt.end_date) ELSE FZero

ExpectedNow ==
    WinnerOf(team_battles[1], TotalNow(team_battles[1].team_a, team_battles[1]),
             TotalNow(team_battles[1].team_b, team_battles[1]))

WinnerSetOnceAfterEnd ==
    [][ /\ Len(team_battles') >= Len(team_battles)
        /\ \A i \in 1..Len(team_battles') :
               today' <= team_battles'[i].end_date
                   => team_battles'[i].winner = None
        /\ \A i \in 1..Len(team_battles) :
               /\ team_battles[i].winner # None
                      => team_battles'[i].winner = team_battles[i].winner
               /\ (today' = today /\ today > team_battles[i].end_date)
                      => team_battles'[i].winner # None ]_vars

\* After a battle was settled as a draw, a walk was logged and u2 joined a
\* team of the battle: the winner stands.
WinnerStandsAfterLaterWalkAndJoin ==
    /\ team_battles # << >>
    /\ team_battles[1].winner = << "draw" >>
    /\ today > team_battles[1].end_date
    /\ last.op = "join_team" /\ last.arg = "B"
    /\ \E u \in DOMAIN users :
           MilesOf(Get(users[u].distance_miles_log, today, FZero)) > 0
    /\ ExpectedNow # << "draw" >>

(***************************************************************************)
(* SpecKeys: _period_key applied on one day and again on a later day, for  *)
(* each period, from 2024-11-30 across the turn of the year (2024-12-30    *)
(* opens ISO week 1 of 2025).                                              *)
(***************************************************************************)
MaxKeyDays == 40

Periods == {"daily", "weekly", "weekend", "monthly"}

\* _period_key({"period": p}) called today.
AskKey(p) ==
    /\ last' = [op |-> "period_key", user |-> "", arg |-> [period |-> p, today |-> today],
                ret |-> PeriodKeyString([period |-> p], today), evals |-> << >>]
    /\ UNCHANGED << today, users, teams, custom_challenges, user_challenges,
                    team_battles, credited, typed >>

NextKeys ==
    \/ today < StartDay + MaxKeyDays /\ Tick
    \/ \E p \in Periods : AskKey(p)

SpecKeys == Init /\ [][NextKeys]_vars

(***************************************************************************)
(* C11.  _period_key returns the same key for two dates in the same period *)
(* instance and different keys for dates in different instances: daily     *)
(* keys differ for every date, weekly keys are equal exactly for dates of  *)
(* the same ISO week, monthly keys exactly for dates of the same year and  *)
(* month, and the weekend key is the Saturday of the Monday-to-Sunday week *)
(* containing the date: Sunday shares the key of the Saturday before it,   *)
(* the Monday after it gets a new key.                                     *)
(***************************************************************************)
\* Monday is weekday 0.
MondayBefore(n) == n - Weekday(n)

\* Both days lie in one calendar month: from the 1st of a month up to the
\* 1st of the next.
SameMonth(d, e) ==
    \E y \in 2024..2025 : \E m \in 1..12 :
        /\ DaysFromCivil(y, m, 1) <= d /\ DaysFromCivil(y, m, 1) <= e
        /\ d < DaysFromCivil(y + (m \div 12), (m % 12) + 1, 1)
        /\ e < DaysFromCivil(y + (m \div 12), (m % 12) + 1, 1)

SamePeriodInstance(p, d, e) ==
    IF p = "daily" THEN d = e
    ELSE IF p = "monthly" THEN SameMonth(d, e)
    ELSE MondayBefore(d) = MondayBefore(e)

PeriodKeysTellInstancesApart ==
    last.op = "period_key"
        => /\ (last.ret = PeriodKeyString([period |-> last.arg.period], today))
                  = SamePeriodInstance(last.arg.period, last.arg.today, today)
           /\ last.arg.period = "weekend"
                  => last.ret = << "weekend-" >> \o IsoFormat(MondayBefore(last.arg.today) + 5)

\* The weekend key was asked on a Sunday and today is the Monday after it.
WeekendKeyAskedOnSundayNowMonday ==
    /\ last.op = "period_key" /\ last.arg.period = "weekend"
    /\ Weekday(last.arg.today) = 6
    /\ today = last.arg.today + 1
    /\ last.ret = << "weekend-" >> \o IsoFormat(last.arg.today - 1)
    /\ last.ret # PeriodKeyString([period |-> "weekend"], today)

(***************************************************************************)
(* SpecCustom: u1 creates a custom challenge of one mile a week (1.0 is    *)
(* the least target the form takes), joins it, and logs up to three walks  *)
(* of 0.1, 0.2 or 0.7 miles on Saturday and Sunday, which share an ISO     *)
(* week, and on the Monday that opens the next.                            *)
(***************************************************************************)
MaxCustomDays == 2
MaxCustomWalks == 3

MileAWeek ==
    [metric |-> "miles", target |-> 1, period |-> "weekly", reward_points |-> 100]

TenthWalks ==
    { [minutes |-> 30, steps |-> 0, miles |-> h, is_group |-> FALSE,
       shared_photo |-> FALSE] : h \in {10, 20, 70} }

NextCustom ==
    \/ today < StartDay + MaxCustomDays /\ Tick
    \/ Rerun("u1")
    \/ custom_challenges = << >> /\ CreateChallenge("u1", MileAWeek)
    \/ custom_challenges # << >> /\ JoinChallenge("u1", custom_challenges[1])
    \/ custom_challenges # << >> /\ LeaveChallenge("u1", custom_challenges[1])
    \/ custom_challenges # << >> /\ CheckComplete("u1", custom_challenges[1])
    \/ TotalWalks < MaxCustomWalks /\ \E w \in TenthWalks : SubmitWalk("u1", w)

SpecCustom == Init /\ [][NextCustom]_vars

(***************************************************************************)
(* C12.  A joined, not completed custom challenge with metric miles,       *)
(* period weekly and target T completes on evaluation exactly when the     *)
(* miles logged on the Monday-to-Sunday dates of the current ISO week sum  *)
(* to at least T, whatever the split of the miles across walks and days;   *)
(* miles logged in other weeks never count.                                *)
(***************************************************************************)
\* The miles the user submitted this week, in hundredths, after the run.
TypedThisWeek(u) ==
    SumOver([d \in WeekAround(today) |-> Get(typed', << u, d >>, NothingTyped).miles],
            WeekAround(today))

CustomWeeklyMilesCompleteAtTarget ==
    [][ ( /\ today' = today
          /\ CustomIds[1] \in DOMAIN last'.evals
          /\ last'.evals[CustomIds[1]].pre.joined
          /\ ~ last'.evals[CustomIds[1]].pre.completed )
            => last'.evals[CustomIds[1]].ret
                   = (TypedThisWeek(last'.user) >= 100 * MileAWeek.target) ]_vars

(***************************************************************************)
(* SpecPhoto: u1 creates the custom challenge of one mile a week, joins,   *)
(* leaves and checks it and photo_share, logs walks of one mile with and   *)
(* without a photo, and sends an invite, from Saturday to the Monday that  *)
(* opens the next ISO week.                                                *)
(***************************************************************************)
MaxPhotoDays == 2
MaxPhotoWalks == 2
MaxPhotoInvites == 1

PhotoWalks == { Walk(30, 0, 1, FALSE, TRUE), Walk(30, 0, 1, FALSE, FALSE) }

PhotoChallenges == {PhotoChallenge} \cup {ch \in ChallengeSet : ch.custom}

NextPhoto ==
    \/ today < StartDay + MaxPhotoDays /\ Tick
    \/ Rerun("u1")
    \/ TotalWalks < MaxPhotoWalks /\ \E w \in PhotoWalks : SubmitWalk("u1", w)
    \/ TotalInvites < MaxPhotoInvites /\ SendInvite("u1")
    \/ custom_challenges = << >> /\ CreateChallenge("u1", MileAWeek)
    \/ \E ch \in PhotoChallenges : JoinChallenge("u1", ch)
    \/ \E ch \in PhotoChallenges : LeaveChallenge("u1", ch)
    \/ \E ch \in PhotoChallenges : CheckComplete("u1", ch)

SpecPhoto == Init /\ [][NextPhoto]_vars

(***************************************************************************)
(* C13.  The photo-share counter is reset when the period of photo_share   *)
(* rolls over and its progress is refreshed at evaluation time, so         *)
(* photo_share completes in a given week only if the user shared at least  *)
(* one photo during that week.                                             *)
(***************************************************************************)
\* The walks with a photo the user submitted this week, after the run.
PhotosThisWeek(u) ==
    SumOver([d \in WeekAround(today) |-> Get(typed', << u, d >>, NothingTyped).photos],
            WeekAround(today))

PhotoShareNeedsPhotoThisWeek ==
    [][ ( /\ today' = today
          /\ "photo_share" \in DOMAIN last'.evals
          /\ last'.evals["photo_share"].ret = TRUE )
            => PhotosThisWeek(last'.user) >= 1 ]_vars

(***************************************************************************)
(* C14.  After every award_walk and every invite_friend for a user, every  *)
(* catalog and custom challenge has been evaluated for that user: on       *)
(* return no challenge is left joined, not completed and with its target   *)
(* met, whatever the kind of the event, and no challenge that is not       *)
(* joined has been completed.                                              *)
(***************************************************************************)
\* The record of the user and the challenge after the run.
RecordAfterRun(u, id) == user_challenges'[u][id]

LeftEligible(u, ch) ==
    /\ RecordAfterRun(u, ch.id).joined
    /\ ~ RecordAfterRun(u, ch.id).completed
    /\ TargetMet(teams', users', u, ch)

EveryChallengeEvaluatedAfterEvent ==
    [][ (today' = today /\ last'.op \in {"walk", "invite"})
            => /\ DOMAIN last'.evals = {ch.id : ch \in ChallengeSet}
               /\ \A ch \in ChallengeSet :
                      /\ ~ LeftEligible(last'.user, ch)
                      /\ ~ last'.evals[ch.id].pre.joined
                             => /\ last'.evals[ch.id].ret = FALSE
                                /\ last'.evals[ch.id].post.completed
                                       = last'.evals[ch.id].pre.completed ]_vars

\* An invite was sent and completed photo_share, joined after the photo was
\* shared, while the custom challenge, not joined with its target met, was
\* left alone.
StalePhotoCompletedOnInvite ==
    /\ last.op = "invite"
    /\ "photo_share" \in DOMAIN last.evals
    /\ last.evals["photo_share"].ret = TRUE
    /\ CustomIds[1] \in DOMAIN last.evals
    /\ ~ last.evals[CustomIds[1]].pre.joined
    /\ TargetMet(teams, users, last.user, custom_challenges[1])

(***************************************************************************)
(* C15.  Leaving a challenge changes only the joined flag of that (user,   *)
(* challenge) record: the user's balance, points of an earlier completion  *)
(* included, and the completed flag stay as they are, so that leaving and  *)
(* joining again within the same period cannot produce a second award.     *)
(***************************************************************************)
\* The record as the run's period refresh finds it, with the joined flag v.
RefreshedWith(u, id, v) ==
    [joined |-> v,
     completed |-> EnsuredRecord(user_challenges, custom_challenges, u, id).completed,
     last_reset |-> EnsuredRecord(user_challenges, custom_challenges, u, id).last_reset]

PointsUnchanged == \A v \in DOMAIN users : users'[v].points = users[v].points

LeaveChangesOnlyJoined ==
    [][ /\ (today' = today /\ last'.op = "leave")
            => /\ user_challenges'[last'.user][last'.arg]
                      = RefreshedWith(last'.user, last'.arg, FALSE)
               /\ PointsUnchanged
               /\ credited' = credited
        /\ (today' = today /\ last'.op = "join")
            => /\ user_challenges'[last'.user][last'.arg]
                      = RefreshedWith(last'.user, last'.arg, TRUE)
               /\ PointsUnchanged
               /\ credited' = credited ]_vars

\* A challenge completed and paid in this period was left and joined
\* again: it is still completed and was paid once.
RejoinedAfterCompletion ==
    /\ last.op = "join"
    /\ \E ch \in ChallengeSet :
           /\ ch.id = last.arg
           /\ user_challenges[last.user][ch.id].joined
           /\ user_challenges[last.user][ch.id].completed
           /\ user_challenges[last.user][ch.id].last_reset = _period_key(ch)
           /\ credited[<< last.user, ch.id >>] = [key |-> _period_key(ch), n |-> 1]

(***************************************************************************)
(* C16.  A period rollover moves a Completed record back to Joined, never  *)
(* to NotJoined: when the period key differs from last_reset, completed    *)
(* is cleared and last_reset is updated, while the joined flag keeps its   *)
(* value (a joined record stays joined, a left record stays not joined).   *)
(***************************************************************************)
\* The record of user u and challenge ch exists and is of an earlier period.
RollsOver(u, ch) ==
    /\ u \in DOMAIN user_challenges
    /\ ch.id \in DOMAIN user_challenges[u]
    /\ user_challenges[u][ch.id].last_reset # _period_key(ch)

\* The run's buttons did not write the joined flag of ch.
JoinedNotPressed(ch) == ~ (last'.op \in {"join", "leave"} /\ last'.arg = ch.id)

\* The run did not complete ch anew.
NotCompletedAnew(ch) == ch.id \notin DOMAIN last'.evals \/ ~ last'.evals[ch.id].ret

RolledOver(u, ch) ==
    /\ user_challenges'[u][ch.id].last_reset = _period_key(ch)
    /\ JoinedNotPressed(ch)
           => user_challenges'[u][ch.id].joined = user_challenges[u][ch.id].joined
    /\ NotCompletedAnew(ch) => ~ user_challenges'[u][ch.id].completed
    /\ ch.id \in DOMAIN last'.evals
           => last'.evals[ch.id].pre =
                  [joined |-> user_challenges[u][ch.id].joined, completed |-> FALSE,
                   last_reset |-> _period_key(ch)]

RolloverKeepsJoined ==
    [][ today' = today
            => \A ch \in ChallengeSet :
                   RollsOver(last'.user, ch) => RolledOver(last'.user, ch) ]_vars

\* A record that was completed and paid in an earlier period is joined and
\* not completed in the current one, after a run without a button.
CompletedBackToJoined ==
    \E u \in DOMAIN user_challenges : \E ch \in ChallengeSet :
        /\ ch.id \in DOMAIN user_challenges[u]
        /\ user_challenges[u][ch.id].joined
        /\ ~ user_challenges[u][ch.id].completed
        /\ user_challenges[u][ch.id].last_reset = _period_key(ch)
        /\ << u, ch.id >> \in DOMAIN credited
        /\ credited[<< u, ch.id >>].key # _period_key(ch)
        /\ last.op = "none"

(***************************************************************************)
(* SpecTeams: u1 joins team A; u2 joins A, B and the team of the empty     *)
(* name (the sidebar strips the name and takes what is left) in any order. *)
(* Both log walks of 50 miles and join and check the two team challenges.  *)
(***************************************************************************)
MaxTeamWalks == 2

TeamNames == {"A", "B", ""}

TeamChallenges ==
    {ch \in ChallengeSet : ch.id \in {"team_100_miles", "relay_pass_baton"}}

NextTeams ==
    \/ Rerun("u1")
    \/ TeamOf("u1") = NoTeam /\ JoinTeamRun("u1", "A")
    \/ \E t \in TeamNames :
           (TeamOf("u2") # t \/ t \notin DOMAIN teams) /\ JoinTeamRun("u2", t)
    \/ TotalWalks < MaxTeamWalks /\ \E u \in Users : SubmitWalk(u, HalfWalk)
    \/ \E u \in Users : \E ch \in TeamChallenges :
           Touched \subseteq {ch.id} /\ JoinChallenge(u, ch)
    \/ \E u \in Users : \E ch \in TeamChallenges : CheckComplete(u, ch)

SpecTeams == Init /\ [][NextTeams]_vars

(***************************************************************************)
(* C17.  Joining team B while in team A sets the user's team affiliation   *)
(* to B only, the user staying in A's member set: no operation ever        *)
(* removes a user from a member set, so a user can be in several member    *)
(* sets at once, and the miles the user logged count toward the total of   *)
(* each of those teams.                                                    *)
(***************************************************************************)
\* The whole miles user m logged this week.
WholeMilesThisWeek(m) ==
    SumOver([d \in WeekAround(today) |->
                MilesOf(Get(users[m].distance_miles_log, d, FZero))],
            WeekAround(today))

\* The week's total of every team is the sum over its member set.
TotalsOverMemberSets ==
    \A t \in DOMAIN teams :
        MilesOf(TeamTotal(users, teams[t]))
            = SumOver([m \in teams[t] |-> WholeMilesThisWeek(m)], teams[t])

JoinedTeam(u, t) ==
    /\ users'[u].team = t
    /\ t \in DOMAIN teams'
    /\ teams'[t] = Get(teams, t, {}) \cup {u}
    /\ \A s \in DOMAIN teams' \ {t} : s \in DOMAIN teams /\ teams'[s] = teams[s]

MembersNeverRemoved ==
    [][ /\ (today' = today /\ last'.op = "join_team")
            => JoinedTeam(last'.user, last'.arg)
        /\ \A s \in DOMAIN teams : s \in DOMAIN teams' /\ teams[s] \subseteq teams'[s]
        /\ TotalsOverMemberSets ]_vars

\* u2, in team A before, joined team B: u2 is in both member sets, and the
\* miles u2 logged are all there is in the totals of A and of B.
InTwoTeamsAndCountedInBoth ==
    /\ last.op = "join_team" /\ last.user = "u2" /\ last.arg = "B"
    /\ "A" \in DOMAIN teams /\ teams["A"] = {"u2"}
    /\ teams["B"] = {"u2"}
    /\ users["u2"].team = "B"
    /\ WholeMilesThisWeek("u2") > 0
    /\ MilesOf(TeamTotal(users, teams["A"])) = WholeMilesThisWeek("u2")
    /\ MilesOf(TeamTotal(users, teams["B"])) = WholeMilesThisWeek("u2")

(***************************************************************************)
(* C18.  In every reachable state a user whose team affiliation is set     *)
(* names a team that exists and whose member set contains that user;       *)
(* hence the team the team-mileage and relay challenges examine for a      *)
(* user is never empty.                                                    *)
(***************************************************************************)
AffiliationNamesOwnTeam ==
    \A u \in DOMAIN users :
        users[u].team # NoTeam
            => /\ users[u].team \in DOMAIN teams
               /\ u \in teams[users[u].team]
               /\ teams[users[u].team] # {}

\* A team challenge was evaluated for a joined member of a team, after the
\* other user had joined the team of the empty name.
TeamChallengeEvaluatedForMember ==
    /\ \E c \in {"team_100_miles", "relay_pass_baton"} :
           /\ c \in DOMAIN last.evals
           /\ last.evals[c].pre.joined
           /\ ~ last.evals[c].pre.completed
    /\ users[last.user].team # NoTeam
    /\ last.user \in teams[users[last.user].team]
    /\ "" \in DOMAIN teams

(***************************************************************************)
(* C19.  settle_battles changes only the winner field of battles:          *)
(* recording a winner or a draw leaves every user's point balance          *)
(* unchanged, so the battle's reward_points are never credited to any      *)
(* member of either team.                                                  *)
(***************************************************************************)
PointsBefore(v) == IF v \in DOMAIN users THEN users[v].points ELSE 0

\* The points the run's own button gave user v: the gained points of a walk.
GainedInRun(v) ==
    IF last'.op = "walk" /\ last'.user = v THEN last'.ret[1] ELSE 0

WinnerRecorded ==
    \E i \in 1..Len(team_battles) :
        team_battles[i].winner = None /\ team_battles'[i].winner # None

NotPaid == [key |-> None, n |-> 0]

\* The run left user v's balance and challenge records as they were.
Untouched(v) ==
    /\ users'[v].points = users[v].points
    /\ v \in DOMAIN user_challenges
           => v \in DOMAIN user_challenges' /\ user_challenges'[v] = user_challenges[v]
    /\ \A ch \in ChallengeSet :
           Get(credited', << v, ch.id >>, NotPaid) = Get(credited, << v, ch.id >>, NotPaid)

CompletedFor(u, ch) ==
    /\ last'.evals[ch.id].pre.joined
    /\ ~ last'.evals[ch.id].pre.completed
    /\ user_challenges'[u][ch.id].completed
    /\ last'.evals[ch.id].paid = ch.reward_points
    /\ \A v \in DOMAIN users \ {u} : Untouched(v)

TeamCompletionIsTheUsersOwn ==
    [][ today' = today
            => \A ch \in TeamChallenges :
                   /\ (ch.id \in DOMAIN last'.evals /\ last'.evals[ch.id].ret = TRUE)
                          => CompletedFor(last'.user, ch)
                   /\ \A v \in DOMAIN users' :
                          Get(credited', << v, ch.id >>, NotPaid)
                                  # Get(credited, << v, ch.id >>, NotPaid)
                              => /\ v = last'.user
                                 /\ ch.id \in DOMAIN last'.evals
                                 /\ last'.evals[ch.id].ret = TRUE ]_vars

\* The relay completed for u1 while u2, a member of the same team who had
\* joined the relay too, was left joined, not completed and unpaid.
RelayCompletedForOneMemberOnly ==
    /\ last.user = "u1"
    /\ "relay_pass_baton" \in DOMAIN last.evals
    /\ last.evals["relay_pass_baton"].ret = TRUE
    /\ "u2" \in teams[users["u1"].team]
    /\ "u2" \in DOMAIN user_challenges
    /\ user_challenges["u2"]["relay_pass_baton"].joined
    /\ ~ user_challenges["u2"]["relay_pass_baton"].completed
    /\ << "u2", "relay_pass_baton" >> \notin DOMAIN credited

(***************************************************************************)
(* SpecTotal: u1 sends an invite, creates a custom challenge of one mile a *)
(* week that pays 100 points or none, joins and checks it and photo_share, *)
(* and logs walks of one mile with and without a photo, on Saturday and    *)
(* Sunday.                                                                 *)
(***************************************************************************)
MaxTotalDays == 1
MaxTotalWalks == 2
MaxTotalInvites == 1

FreeMileAWeek ==
    [metric |-> "miles", target |-> 1, period |-> "weekly", reward_points |-> 0]

NextTotal ==
    \/ today < StartDay + MaxTotalDays /\ Tick
    \/ Rerun("u1")
    \/ TotalWalks < MaxTotalWalks /\ \E w \in PhotoWalks : SubmitWalk("u1", w)
    \/ TotalInvites < MaxTotalInvites /\ SendInvite("u1")
    \/ custom_challenges = << >>
           /\ \E c \in {MileAWeek, FreeMileAWeek} : CreateChallenge("u1", c)
    \/ \E ch \in PhotoChallenges : JoinChallenge("u1", ch)
    \/ \E ch \in PhotoChallenges : CheckComplete("u1", ch)

SpecTotal == Init /\ [][NextTotal]_vars

(***************************************************************************)
(* C21.  For every award_walk call, the returned new total is the balance  *)
(* before the call plus the returned gained points plus the reward_points  *)
(* of every challenge completed during the call; the returned gained       *)
(* value never includes challenge rewards, so that the new total exceeds   *)
(* old balance + gained exactly when the walk completed at least one       *)
(* challenge with a positive reward.                                       *)
(***************************************************************************)
\* The challenges the run's evaluations completed.
CompletedInRun == {ch \in ChallengeSet : last'.evals[ch.id].ret = TRUE}

RewardsOfRun ==
    SumOver([ch \in CompletedInRun |-> ch.reward_points], CompletedInRun)

\* The points of the walk itself, from the form's values and the returned
\* streak.
WalkPoints(w, streak) ==
    w.minutes * POINT_RULES.base_per_minute
      + (IF w.is_group THEN POINT_RULES.group_walk_bonus ELSE 0)
      + (IF w.shared_photo THEN POINT_RULES.photo_share ELSE 0)
      + (IF streak >= 30 THEN POINT_RULES.streak_30
         ELSE IF streak >= 7 THEN POINT_RULES.streak_7 ELSE 0)

ReturnedTotalIsBalancePlusGainedPlusRewards ==
    [][ (today' = today /\ last'.op = "walk")
            => /\ last'.ret[2]
                      = PointsBefore(last'.user) + last'.ret[1] + RewardsOfRun
               /\ last'.ret[2] = users'[last'.user].points
               /\ last'.ret[1] = WalkPoints(last'.arg, last'.ret[3])
               /\ (last'.ret[2] > PointsBefore(last'.user) + last'.ret[1])
                      = (\E ch \in CompletedInRun : ch.reward_points > 0) ]_vars

\* A walk of 30 minutes with a photo, logged on a balance of 50 points,
\* completed photo_share (20 points) and the custom challenge that pays
\* nothing: it returned gained 35 and total 105.
WalkCompletedPaidAndFreeChallenge ==
    /\ last.op = "walk"
    /\ last.ret[1] = 35 /\ last.ret[2] = 105
    /\ last.evals["photo_share"].ret = TRUE
    /\ custom_challenges # << >>
    /\ custom_challenges[1].reward_points = 0
    /\ last.evals[CustomIds[1]].ret = TRUE

====
